---- MODULE Spec2Model ----
(***************************************************************************)
(* node-extras: safeJSON (two source variants) and validateForm (two       *)
(* source variants), modelled over an explicit universe of JavaScript      *)
(* values.  JSON.stringify and JSON.parse are modelled by what they do on  *)
(* characters, so that a round trip can fail.                              *)
(***************************************************************************)
EXTENDS Integers, Sequences, FiniteSets, TLC

VARIABLES
    impl,        \* which safeJSON source is linked: "roundtrip" | "direct"
    value,       \* safeJSON: the argument of the call
    jpc,         \* safeJSON: "call" | "returned" | "threw"
    jret,        \* safeJSON: the value returned (or thrown)
    overload,    \* which validateForm source is linked: "util" | "class"
    body,        \* validateForm: the form container the request body decodes to
    schema,      \* validateForm: the schema argument
    fullReturn,  \* validateForm: the third argument: "true" | "false" | "omitted"
    pc,          \* validateForm: "idle" | "awaiting" | "resolved" | "rejected"
    readState,   \* request.formData() promise: "unread" | "pending" | "fulfilled" | "rejected"
    readError,   \* what the body read was rejected with
    reads,       \* how many times request.formData() was invoked
    jsonCalls,   \* how many times validateForm invoked safeJSON
    parseCalls,  \* how many times validateForm invoked schema.safeParse
    parsed,      \* what schema.safeParse returned
    result,      \* what validateForm's promise resolved with
    failure      \* what validateForm's promise rejected with

jsonVars == <<value, jpc, jret>>
formVars == <<overload, body, schema, fullReturn, pc, readState, readError,
              reads, jsonCalls, parseCalls, parsed, result, failure>>
vars == <<impl, value, jpc, jret, overload, body, schema, fullReturn, pc,
          readState, readError, reads, jsonCalls, parseCalls, parsed, result,
          failure>>

----------------------------------------------------------------------------
(* JavaScript values.  Every value is a record of the same five fields, so  *)
(* that any two values can be compared: t the kind, n a number, s the       *)
(* characters of a string, k the keys and a the members of a container.     *)

JS(t, n, s, k, a) == [t |-> t, n |-> n, s |-> s, k |-> k, a |-> a]

Undefined == JS("undefined", 0, <<>>, <<>>, <<>>)
Null == JS("null", 0, <<>>, <<>>, <<>>)
Bool(b) == JS("boolean", IF b THEN 1 ELSE 0, <<>>, <<>>, <<>>)
Num(n) == JS("number", n, <<>>, <<>>, <<>>)
NaN == JS("NaN", 0, <<>>, <<>>, <<>>)
Str(s) == JS("string", 0, s, <<>>, <<>>)
Arr(a) == JS("array", 0, <<>>, <<>>, a)
Obj(k, a) == JS("object", 0, <<>>, k, a)
\* A File entry of a form: an object with no own enumerable property.
File == JS("File", 0, <<>>, <<>>, <<>>)
\* An object that holds a reference to itself: JSON.stringify throws on it.
Cyclic == JS("cyclic", 0, <<>>, <<>>, <<>>)
\* An Error object, named by its constructor.
Error(name) == JS("Error", 0, <<name>>, <<>>, <<>>)

\* Completion of a call: a normal return, or a throw.
Normal(v) == [threw |-> FALSE, val |-> v]
Throw(e) == [threw |-> TRUE, val |-> e]

\* Property read obj[key]: undefined when the key is absent.
RECURSIVE IndexOf(_, _, _)
IndexOf(keys, key, i) ==
    IF i > Len(keys) THEN 0
    ELSE IF keys[i] = key THEN i
    ELSE IndexOf(keys, key, i + 1)

Has(obj, key) == IndexOf(obj.k, key, 1) # 0

Get(obj, key) ==
    LET i == IndexOf(obj.k, key, 1)
    IN  IF i = 0 THEN Undefined ELSE obj.a[i]

\* Property write obj[key] = v on a fresh copy: an existing key keeps its place.
Put(obj, key, v) ==
    LET i == IndexOf(obj.k, key, 1)
    IN  IF i = 0
        THEN [obj EXCEPT !.k = Append(obj.k, key), !.a = Append(obj.a, v)]
        ELSE [obj EXCEPT !.a[i] = v]

----------------------------------------------------------------------------
(* Characters and texts.  A text is a sequence of one-character strings.    *)

Digits == <<"0", "1", "2", "3", "4", "5", "6", "7", "8", "9">>
DigitSet == {Digits[i] : i \in 1..10}
DigitValue(c) == CHOOSE d \in 0..9 : Digits[d + 1] = c
Whitespace == {" ", "\t", "\n", "\r"}
\* Characters below U+0020, which a JSON string may hold only escaped.
ControlChars == {"\t", "\n", "\r", "\f", "<BS>"}
\* The letter after a backslash in a JSON string, and the character it means.
EscapeLetters == {"\"", "\\", "/", "b", "f", "n", "r", "t"}
Unescape(e) ==
    CASE e = "b" -> "<BS>"
      [] e = "f" -> "\f"
      [] e = "n" -> "\n"
      [] e = "r" -> "\r"
      [] e = "t" -> "\t"
      [] OTHER -> e
EscapeOf(c) ==
    CASE c = "<BS>" -> <<"\\", "b">>
      [] c = "\f" -> <<"\\", "f">>
      [] c = "\n" -> <<"\\", "n">>
      [] c = "\r" -> <<"\\", "r">>
      [] c = "\t" -> <<"\\", "t">>
      [] c = "\"" -> <<"\\", "\"">>
      [] c = "\\" -> <<"\\", "\\">>
      [] OTHER -> <<c>>

T_null == <<"n", "u", "l", "l">>
T_true == <<"t", "r", "u", "e">>
T_false == <<"f", "a", "l", "s", "e">>
T_undefined == <<"u", "n", "d", "e", "f", "i", "n", "e", "d">>
T_NaN == <<"N", "a", "N">>
T_objectObject ==
    <<"[", "o", "b", "j", "e", "c", "t", " ", "O", "b", "j", "e", "c", "t", "]">>
T_objectFile ==
    <<"[", "o", "b", "j", "e", "c", "t", " ", "F", "i", "l", "e", "]">>

\* The decimal digits of a natural number.
RECURSIVE DigitsOf(_)
DigitsOf(n) ==
    IF n < 10 THEN <<Digits[n + 1]>>
    ELSE Append(DigitsOf(n \div 10), Digits[(n % 10) + 1])

NumberText(n) == IF n < 0 THEN <<"-">> \o DigitsOf(-n) ELSE DigitsOf(n)

\* ToString, the coercion JSON.parse applies to an argument that is no string.
\* Array.prototype.join writes null and undefined members as the empty text.
RECURSIVE JSToString(_)
RECURSIVE JoinToString(_, _)
JoinToString(a, i) ==
    IF i > Len(a) THEN <<>>
    ELSE (IF i > 1 THEN <<",">> ELSE <<>>)
         \o (IF a[i].t \in {"null", "undefined"} THEN <<>> ELSE JSToString(a[i]))
         \o JoinToString(a, i + 1)

JSToString(v) ==
    CASE v.t = "string" -> v.s
      [] v.t = "undefined" -> T_undefined
      [] v.t = "null" -> T_null
      [] v.t = "boolean" -> IF v.n = 1 THEN T_true ELSE T_false
      [] v.t = "number" -> NumberText(v.n)
      [] v.t = "NaN" -> T_NaN
      [] v.t = "array" -> JoinToString(v.a, 1)
      [] v.t = "File" -> T_objectFile
      [] OTHER -> T_objectObject

----------------------------------------------------------------------------
(* JSON.stringify(value), with no replacer and no indent.  It returns a     *)
(* string, returns undefined for undefined, or throws a TypeError on a      *)
(* cyclic structure.                                                       *)

RECURSIVE QuoteChars(_, _)
QuoteChars(s, i) ==
    IF i > Len(s) THEN <<>> ELSE EscapeOf(s[i]) \o QuoteChars(s, i + 1)

Quote(s) == <<"\"">> \o QuoteChars(s, 1) \o <<"\"">>

\* Whether serializing v meets a cycle.
RECURSIVE HasCycle(_)
HasCycle(v) ==
    \/ v.t = "cyclic"
    \/ /\ v.t \in {"array", "object"}
       /\ \E i \in 1..Len(v.a) : HasCycle(v.a[i])

\* The JSON text of a value that holds no cycle; <<>> stands for "no text"
\* (undefined), which an array writes as null and an object leaves out.
RECURSIVE SerializeJSONProperty(_)
RECURSIVE SerializeJSONArray(_, _)
RECURSIVE SerializeJSONObject(_, _, _)
SerializeJSONArray(a, i) ==
    IF i > Len(a) THEN <<>>
    ELSE LET e == SerializeJSONProperty(a[i])
         IN  (IF i > 1 THEN <<",">> ELSE <<>>)
             \o (IF e = <<>> THEN T_null ELSE e)
             \o SerializeJSONArray(a, i + 1)

SerializeJSONObject(o, i, first) ==
    IF i > Len(o.k) THEN <<>>
    ELSE LET e == SerializeJSONProperty(o.a[i])
         IN  IF e = <<>> THEN SerializeJSONObject(o, i + 1, first)
             ELSE (IF first THEN <<>> ELSE <<",">>)
                  \o Quote(o.k[i]) \o <<":">> \o e
                  \o SerializeJSONObject(o, i + 1, FALSE)

SerializeJSONProperty(v) ==
    CASE v.t = "undefined" -> <<>>
      [] v.t = "null" -> T_null
      [] v.t = "boolean" -> IF v.n = 1 THEN T_true ELSE T_false
      [] v.t = "number" -> NumberText(v.n)
      [] v.t = "NaN" -> T_null
      [] v.t = "string" -> Quote(v.s)
      [] v.t = "array" -> <<"[">> \o SerializeJSONArray(v.a, 1) \o <<"]">>
      [] v.t = "object" -> <<"{">> \o SerializeJSONObject(v, 1, TRUE) \o <<"}">>
      [] OTHER -> <<"{", "}">>

JSONstringify(v) ==
    IF HasCycle(v) THEN Throw(Error("TypeError"))
    ELSE IF v.t = "undefined" THEN Normal(Undefined)
    ELSE Normal(Str(SerializeJSONProperty(v)))

----------------------------------------------------------------------------
(* JSON.parse(text): a recursive descent over the characters.  A parse step *)
(* returns [ok, val, next]: whether a value was read, the value, and the    *)
(* position after it.  Numbers are integers: no input of the model holds a  *)
(* fraction or an exponent, nor a \u escape.                               *)

ParseFail == [ok |-> FALSE, val |-> Undefined, next |-> 0]
ParseOk(v, next) == [ok |-> TRUE, val |-> v, next |-> next]

RECURSIVE SkipWs(_, _)
SkipWs(txt, i) ==
    IF i <= Len(txt) /\ txt[i] \in Whitespace THEN SkipWs(txt, i + 1) ELSE i

StartsWith(txt, i, lit) ==
    /\ i + Len(lit) - 1 <= Len(txt)
    /\ \A j \in 1..Len(lit) : txt[i + j - 1] = lit[j]

\* The characters of a string, from position i (after the opening quote).
RECURSIVE ParseChars(_, _, _)
ParseChars(txt, i, acc) ==
    IF i > Len(txt) THEN ParseFail
    ELSE IF txt[i] = "\"" THEN ParseOk(Str(acc), i + 1)
    ELSE IF txt[i] = "\\"
         THEN IF i + 1 <= Len(txt) /\ txt[i + 1] \in EscapeLetters
              THEN ParseChars(txt, i + 2, Append(acc, Unescape(txt[i + 1])))
              ELSE ParseFail
    ELSE IF txt[i] \in ControlChars THEN ParseFail
    ELSE ParseChars(txt, i + 1, Append(acc, txt[i]))

RECURSIVE ParseDigits(_, _, _)
ParseDigits(txt, i, acc) ==
    IF i <= Len(txt) /\ txt[i] \in DigitSet
    THEN ParseDigits(txt, i + 1, 10 * acc + DigitValue(txt[i]))
    ELSE [val |-> acc, next |-> i]

\* -? (0 | [1-9][0-9]*): a leading 0 ends the number.
ParseNumber(txt, i) ==
    LET neg == txt[i] = "-"
        j == IF neg THEN i + 1 ELSE i
    IN  IF j > Len(txt) \/ txt[j] \notin DigitSet THEN ParseFail
        ELSE IF txt[j] = "0" THEN ParseOk(Num(0), j + 1)
        ELSE LET d == ParseDigits(txt, j, 0)
             IN  ParseOk(Num(IF neg THEN -d.val ELSE d.val), d.next)

RECURSIVE ParseValue(_, _)
RECURSIVE ParseElements(_, _, _)
RECURSIVE ParseMembers(_, _, _)

\* The elements of an array, from position i (before an element).
ParseElements(txt, i, acc) ==
    LET r == ParseValue(txt, i)
        j == SkipWs(txt, r.next)
    IN  IF ~r.ok \/ j > Len(txt) THEN ParseFail
        ELSE IF txt[j] = "," THEN ParseElements(txt, j + 1, Append(acc, r.val))
        ELSE IF txt[j] = "]" THEN ParseOk(Arr(Append(acc, r.val)), j + 1)
        ELSE ParseFail

\* The members of an object, from position i (before a key).  A repeated
\* key keeps its first place and takes the last value.
ParseMembers(txt, i, acc) ==
    LET j == SkipWs(txt, i)
        key == ParseChars(txt, j + 1, <<>>)
        c == SkipWs(txt, key.next)
        r == ParseValue(txt, c + 1)
        e == SkipWs(txt, r.next)
    IN  IF j > Len(txt) \/ txt[j] # "\"" THEN ParseFail
        ELSE IF ~key.ok \/ c > Len(txt) \/ txt[c] # ":" THEN ParseFail
        ELSE IF ~r.ok \/ e > Len(txt) THEN ParseFail
        ELSE IF txt[e] = "," THEN ParseMembers(txt, e + 1, Put(acc, key.val.s, r.val))
        ELSE IF txt[e] = "}" THEN ParseOk(Put(acc, key.val.s, r.val), e + 1)
        ELSE ParseFail

ParseValue(txt, i0) ==
    LET i == SkipWs(txt, i0)
        c == txt[i]
    IN  IF i > Len(txt) THEN ParseFail
        ELSE IF c = "{"
             THEN LET j == SkipWs(txt, i + 1)
                  IN  IF j <= Len(txt) /\ txt[j] = "}"
                      THEN ParseOk(Obj(<<>>, <<>>), j + 1)
                      ELSE ParseMembers(txt, j, Obj(<<>>, <<>>))
        ELSE IF c = "["
             THEN LET j == SkipWs(txt, i + 1)
                  IN  IF j <= Len(txt) /\ txt[j] = "]"
                      THEN ParseOk(Arr(<<>>), j + 1)
                      ELSE ParseElements(txt, j, <<>>)
        ELSE IF c = "\"" THEN ParseChars(txt, i + 1, <<>>)
        ELSE IF c = "-" \/ c \in DigitSet THEN ParseNumber(txt, i)
        ELSE IF StartsWith(txt, i, T_null) THEN ParseOk(Null, i + 4)
        ELSE IF StartsWith(txt, i, T_true) THEN ParseOk(Bool(TRUE), i + 4)
        ELSE IF StartsWith(txt, i, T_false) THEN ParseOk(Bool(FALSE), i + 5)
        ELSE ParseFail

\* JSON.parse(arg): the argument is coerced to a string first; text after the
\* value, other than white space, is a SyntaxError.
JSONparse(arg) ==
    LET txt == JSToString(arg)
        r == ParseValue(txt, 1)
    IN  IF r.ok /\ SkipWs(txt, r.next) > Len(txt)
        THEN Normal(r.val)
        ELSE Throw(Error("SyntaxError"))

----------------------------------------------------------------------------
(* safeJSON.  Both sources are modelled: src/util/safeJSON.ts serializes    *)
(* the value and parses the text back; the other parses the value itself.   *)
(* Each returns a completion, so that a throw reaching the caller shows.    *)

\* try { result = JSON.parse(JSON.stringify(value)) } catch { return value }
safeJSON(v) ==
    LET text == JSONstringify(v)
        res == JSONparse(text.val)
    IN  IF text.threw THEN Normal(v)
        ELSE IF res.threw THEN Normal(v)
        ELSE Normal(res.val)

\* The catch block returns result, still unassigned, instead of value.
safeJSONDirect_CatchReturnsResult(v) ==
    LET res == JSONparse(v)
    IN  IF res.threw THEN Normal(Undefined) ELSE Normal(res.val)

\* try { result = JSON.parse(value) } catch { return value }
safeJSONDirect(v) ==
    LET res == JSONparse(v)
    IN  IF res.threw THEN Normal(v) ELSE Normal(res.val)

Impls == {"roundtrip", "direct"}

\* The safeJSON that "./safeJSON" resolves to.
safeJSONOf(i, v) == IF i = "roundtrip" THEN safeJSON(v) ELSE safeJSONDirect(v)

----------------------------------------------------------------------------
(* The inputs of safeJSON.                                                  *)

MaxTextLen == 3
MaxArrayLen == 2

K_id == <<"i", "d">>
K_data == <<"d", "a", "t", "a">>
K_file == <<"f", "i", "l", "e">>
K_success == <<"s", "u", "c", "c", "e", "s", "s">>
K_error == <<"e", "r", "r", "o", "r">>
K_formData == <<"f", "o", "r", "m", "D", "a", "t", "a">>

\* '{"id": 42}', '{"id": 99999}' and 'not json'
T_id42 == <<"{", "\"", "i", "d", "\"", ":", " ", "4", "2", "}">>
T_id99999 == <<"{", "\"", "i", "d", "\"", ":", " ", "9", "9", "9", "9", "9", "}">>
T_notjson == <<"n", "o", "t", " ", "j", "s", "o", "n">>

Alphabet == {"0", "1", "-", "[", "]", "\"", "\\", " "}
FreeTexts == UNION {[1..m -> Alphabet] : m \in 0..MaxTextLen}
ScenarioTexts ==
    {T_id42, T_id99999, T_notjson, T_null, T_true, T_undefined, T_NaN,
     <<"\"", "\\", "n", "\"">>, <<"{", "}">>, <<"[", "1", ",", "]">>,
     <<"{", "\"", "a", "\"", ":", "1", ",", "\"", "a", "\"", ":", "0", "}">>}

Elements ==
    {Null, Bool(TRUE), Num(1), Num(42), Str(<<"a">>), Arr(<<>>),
     Arr(<<Num(1)>>), Obj(<<K_id>>, <<Num(42)>>)}
Arrays == {Arr(a) : a \in UNION {[1..m -> Elements] : m \in 0..MaxArrayLen}}
Objects ==
    {Obj(<<>>, <<>>)}
    \cup {Obj(<<K_id>>, <<e>>) : e \in Elements}
    \cup {Obj(<<K_id, <<"a">>>>, <<Num(-1), e>>) : e \in Elements}
\* The structured values JSON can carry.
JSONValues ==
    {Null, Bool(TRUE), Bool(FALSE), Num(0), Num(1), Num(42), Num(-1),
     Num(65535), Str(<<>>), Str(<<"a">>), Str(<<"\"">>), Str(<<"\\", "\n">>),
     Str(T_id42), Str(<<"1">>)}
    \cup Arrays \cup Objects
\* Values JSON cannot carry as they are.
Uncarried ==
    {Undefined, NaN, File, Cyclic, Arr(<<Undefined>>), Arr(<<NaN, Num(1)>>),
     Arr(<<Cyclic>>), Obj(<<K_id>>, <<Undefined>>), Obj(<<K_id>>, <<Cyclic>>)}

Texts == FreeTexts \cup ScenarioTexts \cup {JSONstringify(s).val.s : s \in JSONValues}
NonTexts == {v \in JSONValues : v.t # "string"} \cup Uncarried
Values == {Str(t) : t \in Texts} \cup NonTexts

\* No value yet.
Pending == JS("<pending>", 0, <<>>, <<>>, <<>>)

\* Whether a text is valid JSON text, and the structure it denotes.
IsJSONText(txt) == ~JSONparse(Str(txt)).threw
StructureOf(txt) == JSONparse(Str(txt)).val

----------------------------------------------------------------------------
(* The collaborators of validateForm: the request's form container and the  *)
(* schema's safeParse.                                                      *)

MaxEntries == 2

\* A FormData: its entries in order, names in k and values in a.
FormData(names, values) == JS("FormData", 0, <<>>, names, values)

\* formData.get(name): the first entry of that name, or null.
FormDataGet(fd, name) == IF Has(fd, name) THEN Get(fd, name) ELSE Null

DataValues == {Str(T_id42), Str(T_id99999), Str(T_notjson), Str(T_null), File}
Entries == ({K_data} \X DataValues) \cup ({K_file} \X {File, Str(T_notjson)})
Forms ==
    {FormData([i \in DOMAIN e |-> e[i][1]], [i \in DOMAIN e |-> e[i][2]]) :
        e \in UNION {[1..m -> Entries] : m \in 0..MaxEntries}}

\* What a failed body read rejects with.
ReadErrors == {Error("TypeError"), Error("AbortError")}

\* z.number().min(0).max(65535)
MinId == 0
MaxId == 65535

ZodError(code) == JS("ZodError", 0, <<code>>, <<>>, <<>>)
SafeParseSuccess(data) == Obj(<<K_success, K_data>>, <<Bool(TRUE), data>>)
SafeParseError(code) == Obj(<<K_success, K_error>>, <<Bool(FALSE), ZodError(code)>>)

\* IndexSubmission = z.object({ id: z.number().min(0).max(65535) })
IndexSubmission(v) ==
    LET id == Get(v, K_id)
    IN  IF v.t \notin {"object", "File"} THEN SafeParseError("invalid_type")
        ELSE IF id.t # "number" THEN SafeParseError("invalid_type")
        ELSE IF id.n < MinId THEN SafeParseError("too_small")
        ELSE IF id.n > MaxId THEN SafeParseError("too_big")
        ELSE SafeParseSuccess(Obj(<<K_id>>, <<id>>))

\* The schemas passed: IndexSubmission, z.string(), z.any() and
\* z.null().transform(() => undefined).
Schemas == {"IndexSubmission", "string", "any", "nullToUndefined"}

\* schema.safeParse(v): never throws.
safeParse(sch, v) ==
    CASE sch = "IndexSubmission" -> IndexSubmission(v)
      [] sch = "string" ->
            IF v.t = "string" THEN SafeParseSuccess(v)
            ELSE SafeParseError("invalid_type")
      [] sch = "any" -> SafeParseSuccess(v)
      [] OTHER ->
            IF v.t = "null" THEN SafeParseSuccess(Undefined)
            ELSE SafeParseError("invalid_type")

Succeeded(p) == Get(p, K_success) = Bool(TRUE)

----------------------------------------------------------------------------
(* validateForm.  Both sources are modelled: src/util/validateForm.ts       *)
(* declares fullReturn?: boolean, src/type/Class.ts fullReturn = true.      *)

Overloads == {"util", "class"}
Arguments == {"true", "false", "omitted"}

\* The value of the fullReturn parameter inside the function.
FullReturn(ov, arg) == IF arg = "omitted" THEN ov = "class" ELSE arg = "true"

\* formData is attached only to a successful outcome.
validateFormReturn_FormDataOnSuccess(p, formData, full) ==
    IF full THEN (IF Succeeded(p) THEN Put(p, K_formData, formData) ELSE p)
    ELSE IF Succeeded(p) THEN Get(p, K_data)
    ELSE Undefined

\* return parsed.success ? parsed.data : parsed.error
validateFormReturn_ErrorOnFailure(p, formData, full) ==
    IF full THEN Put(p, K_formData, formData)
    ELSE IF Succeeded(p) THEN Get(p, K_data)
    ELSE Get(p, K_error)

\* return parsed.data ? parsed.data : undefined (a test of the data, not of
\* the discriminant: null, 0 and "" are falsy)
validateFormReturn_Truthy(p, formData, full) ==
    LET d == Get(p, K_data)
    IN  IF full THEN Put(p, K_formData, formData)
        ELSE IF d \in {Undefined, Null, Num(0), Str(<<>>), Bool(FALSE), NaN}
             THEN Undefined
        ELSE d

\* if (fullReturn) return { ...parsed, formData };
\* return parsed.success ? parsed.data : undefined;
validateFormReturn(p, formData, full) ==
    IF full THEN Put(p, K_formData, formData)
    ELSE IF Succeeded(p) THEN Get(p, K_data)
    ELSE Undefined

\* validateForm is called: request.formData() is invoked and awaited.
Call ==
    /\ pc = "idle"
    /\ pc' = "awaiting"
    /\ reads' = reads + 1
    /\ readState' = "pending"
    /\ UNCHANGED <<impl, jsonVars, overload, body, schema, fullReturn,
                   readError, jsonCalls, parseCalls, parsed, result, failure>>

\* The body is received and decoded: the read's promise is fulfilled.
BodyArrives ==
    /\ readState = "pending"
    /\ readState' = "fulfilled"
    /\ UNCHANGED <<impl, jsonVars, overload, body, schema, fullReturn, pc,
                   readError, reads, jsonCalls, parseCalls, parsed, result,
                   failure>>

\* The body read fails or is cancelled: the read's promise is rejected.
BodyFails ==
    /\ readState = "pending"
    /\ \E e \in ReadErrors :
        /\ readState' = "rejected"
        /\ readError' = e
    /\ UNCHANGED <<impl, jsonVars, overload, body, schema, fullReturn, pc,
                   reads, jsonCalls, parseCalls, parsed, result, failure>>

\* The await returns the form container: the rest of the function runs.
Resume ==
    /\ pc = "awaiting"
    /\ readState = "fulfilled"
    /\ LET data == safeJSONOf(impl, FormDataGet(body, K_data))
           p == safeParse(schema, data.val)
       IN  /\ jsonCalls' = jsonCalls + 1
           /\ IF data.threw
              THEN /\ pc' = "rejected"
                   /\ failure' = data.val
                   /\ UNCHANGED <<parseCalls, parsed, result>>
              ELSE /\ pc' = "resolved"
                   /\ parseCalls' = parseCalls + 1
                   /\ parsed' = p
                   /\ result' = validateFormReturn(p, body,
                                                   FullReturn(overload, fullReturn))
                   /\ UNCHANGED failure
    /\ UNCHANGED <<impl, jsonVars, overload, body, schema, fullReturn,
                   readState, readError, reads>>

\* The read's failure is caught and the call resolves with undefined.
Reject_Caught ==
    /\ pc = "awaiting"
    /\ readState = "rejected"
    /\ pc' = "resolved"
    /\ result' = Undefined
    /\ UNCHANGED <<impl, jsonVars, overload, body, schema, fullReturn,
                   readState, readError, reads, jsonCalls, parseCalls, parsed,
                   failure>>

\* The await throws what the read was rejected with: nothing catches it.
Reject ==
    /\ pc = "awaiting"
    /\ readState = "rejected"
    /\ pc' = "rejected"
    /\ failure' = readError
    /\ UNCHANGED <<impl, jsonVars, overload, body, schema, fullReturn,
                   readState, readError, reads, jsonCalls, parseCalls, parsed,
                   result>>

Init ==
    /\ impl \in Impls
    /\ overload \in Overloads
    /\ body \in Forms
    /\ schema \in Schemas
    /\ fullReturn \in Arguments
    /\ pc = "idle"
    /\ readState = "unread"
    /\ readError = Pending
    /\ reads = 0
    /\ jsonCalls = 0
    /\ parseCalls = 0
    /\ parsed = Pending
    /\ result = Pending
    /\ failure = Pending
    /\ value = Undefined
    /\ jpc = "idle"
    /\ jret = Pending

Next == Call \/ BodyArrives \/ BodyFails \/ Resume \/ Reject

Spec == Init /\ [][Next]_vars

----------------------------------------------------------------------------
(* safeJSON called on its own, on any value.                                *)

Convert ==
    /\ jpc = "call"
    /\ LET c == safeJSONOf(impl, value)
       IN  /\ jpc' = IF c.threw THEN "threw" ELSE "returned"
           /\ jret' = c.val
    /\ UNCHANGED <<impl, value, formVars>>

InitJSON ==
    /\ impl \in Impls
    /\ value \in Values
    /\ jpc = "call"
    /\ jret = Pending
    /\ overload = "util"
    /\ body = FormData(<<>>, <<>>)
    /\ schema = "any"
    /\ fullReturn = "omitted"
    /\ pc = "idle"
    /\ readState = "unread"
    /\ readError = Pending
    /\ reads = 0
    /\ jsonCalls = 0
    /\ parseCalls = 0
    /\ parsed = Pending
    /\ result = Pending
    /\ failure = Pending

NextJSON == Convert

SpecJSON == InitJSON /\ [][NextJSON]_vars

----------------------------------------------------------------------------
(* Properties of safeJSON, checked under SpecJSON.                          *)

\* C1: for every value that is valid JSON text, safeJSON returns the parsed
\* structure of the text; for every structured value s JSON can carry,
\* safeJSON(JSON.stringify(s)) is structurally equal to s.
C1_ReturnsParsedStructure ==
    (jpc = "returned" /\ value.t = "string" /\ IsJSONText(value.s))
        => /\ jret = StructureOf(value.s)
           /\ \A s \in JSONValues : value = JSONstringify(s).val => jret = s

\* C2: for every text that is not valid JSON text, safeJSON returns the text
\* unchanged, and no call of safeJSON raises.
C2_InvalidTextPassesThrough ==
    /\ jpc # "threw"
    /\ (jpc = "returned" /\ value.t = "string" /\ ~IsJSONText(value.s))
           => jret = value

\* 'not json' was converted, by the source that parses the value itself.
C2_Witness ==
    /\ jpc = "returned"
    /\ impl = "direct"
    /\ value = Str(T_notjson)
    /\ jret = Str(T_notjson)

\* C8: the two strategies agree: on every value, parsing the value itself and
\* parsing its serialization (each with passthrough on error) return the same.
C8_StrategiesAgree ==
    jpc = "returned"
        => /\ jret = safeJSON(value).val
           /\ jret = safeJSONDirect(value).val

\* C9: for every input that is not text, safeJSON does not throw and returns
\* the original value (structurally equal to the input).
C9_NonTextPassesThrough ==
    /\ jpc # "threw"
    /\ (jpc = "returned" /\ value.t # "string") => jret = value

----------------------------------------------------------------------------
(* Properties of validateForm, checked under Spec.                          *)

\* The `data` field of the form is the JSON text of an object.
DataIsObjectText ==
    LET d == FormDataGet(body, K_data)
    IN  /\ d.t = "string"
        /\ IsJSONText(d.s)
        /\ StructureOf(d.s).t = "object"

\* C3: the schema is applied to the parsed structure of the `data` field:
\* when the field is the JSON text of an object, minimal mode returns the
\* object's validated data if the object satisfies the schema and undefined
\* if not, and full mode returns the schema's outcome on the object.
C3_SchemaSeesParsedStructure ==
    (pc = "resolved" /\ DataIsObjectText /\ fullReturn # "omitted")
        => LET out == safeParse(schema, StructureOf(FormDataGet(body, K_data).s))
           IN  IF fullReturn = "false"
               THEN result = (IF Succeeded(out) THEN Get(out, K_data) ELSE Undefined)
               ELSE /\ Get(result, K_success) = Get(out, K_success)
                    /\ Get(result, K_data) = Get(out, K_data)
                    /\ Get(result, K_error) = Get(out, K_error)

\* C4: with fullReturn = true the result is the fields of safeParse's outcome,
\* unchanged, and a formData key holding the form container read from the
\* request, whether validation succeeded or failed.
C4_FullReturnCarriesOutcomeAndForm ==
    (pc = "resolved" /\ fullReturn = "true")
        => /\ result.t = "object"
           /\ Get(result, K_formData) = body
           /\ Len(result.k) = Len(parsed.k) + 1
           /\ \A key \in {K_success, K_data, K_error} :
                /\ Has(result, key) = Has(parsed, key)
                /\ Get(result, key) = Get(parsed, key)

\* A failed validation was returned in full.
C4_Witness ==
    /\ pc = "resolved"
    /\ fullReturn = "true"
    /\ schema = "IndexSubmission"
    /\ FormDataGet(body, K_data) = Str(T_id99999)
    /\ Get(result, K_success) = Bool(FALSE)
    /\ Has(result, K_error)
    /\ Get(result, K_formData) = body

C6_OmittedMeansFull ==
    (pc = "resolved" /\ fullReturn = "omitted")
        => /\ Has(result, K_success)
           /\ Get(result, K_success) = Get(parsed, K_success)
           /\ Get(result, K_data) = Get(parsed, K_data)
           /\ Get(result, K_error) = Get(parsed, K_error)
           /\ Get(result, K_formData) = body

\* C7: the body read is started exactly once; safeJSON and safeParse run only
\* after it completed successfully; after a failed read the call ends rejected
\* with that same failure, safeParse not invoked and no result returned.
C7_ReadBeforeParse ==
    /\ reads = (IF pc = "idle" THEN 0 ELSE 1)
    /\ (jsonCalls > 0 \/ parseCalls > 0) => readState = "fulfilled"
    /\ jsonCalls <= 1 /\ parseCalls <= 1
    /\ (readState = "rejected" /\ pc # "awaiting")
           => /\ pc = "rejected"
              /\ failure = readError
              /\ parseCalls = 0
              /\ jsonCalls = 0
              /\ parsed = Pending
              /\ result = Pending
    /\ pc = "resolved" => (readState = "fulfilled" /\ parseCalls = 1)

\* A cancelled read ended the call with the cancellation.
C7_Witness ==
    /\ pc = "rejected"
    /\ readState = "rejected"
    /\ failure = Error("AbortError")
    /\ parseCalls = 0

\* C10 as stated: in minimal mode the result is undefined if and only if
\* safeParse reported failure.
C10_UndefinedIffFailure ==
    (pc = "resolved" /\ fullReturn = "false")
        => (result = Undefined <=> ~Succeeded(parsed))

\* C10 as amended: in minimal mode the result is undefined if and only if
\* safeParse reported failure or reported success with undefined data.
C10_UndefinedIffFailureOrUndefinedData ==
    (pc = "resolved" /\ fullReturn = "false")
        => (result = Undefined
                <=> (~Succeeded(parsed) \/ Get(parsed, K_data) = Undefined))

\* A form with no `data` field passed a schema that maps null to undefined.
C10_Witness ==
    /\ pc = "resolved"
    /\ fullReturn = "false"
    /\ ~Has(body, K_data)
    /\ Succeeded(parsed)
    /\ result = Undefined

====
